---------------------------- MODULE Spec2Model ----------------------------
(***************************************************************************)
(* Model of argparse_subdec.SubDec (src/argparse_subdec/subdec.py).        *)
(*                                                                         *)
(* A SubDec object records, per decorated function, the calls to replay    *)
(* on the sub-parser of that function (subparser_call_stack) and the       *)
(* arguments of add_parser (add_parser_args); create_parsers() then        *)
(* creates one sub-parser per function on a sub-parser group.              *)
(*                                                                         *)
(* Encoding of Python values:                                              *)
(*   str            a sequence of one-character strings                    *)
(*   Optional[T]    None is {} and a value v is {v}                        *)
(*   tuple k        a sequence                                             *)
(*   dict kw        a set of <<key, value>> pairs                          *)
(*   function       its identity, an element of Fns; FnName is __name__    *)
(*   ordered dict   a sequence of [key, value] records, insertion order    *)
(***************************************************************************)
EXTENDS Integers, Sequences, FiniteSets, TLC

VARIABLES
    name_prefix,        \* self.__name_prefix
    fn_dest,            \* self.__fn_dest
    sep,                \* self.__sep (Optional[str])
    decorators_cache,   \* self.__decorators_cache (its keys)
    commands,           \* self.__commands
    history,            \* the decorator applications made so far, in order
    subparsers,         \* the group create_parsers was called with since the
                        \* last decorator application, None if it was not
    error               \* the exception that call raised, None if none

vars == <<name_prefix, fn_dest, sep, decorators_cache, commands, history,
          subparsers, error>>

config == <<name_prefix, fn_dest, sep>>

-----------------------------------------------------------------------------
(* Bounds *)

\* the number of decorator applications made on one SubDec object
MaxDecorations == 3

-----------------------------------------------------------------------------
(* Python values *)

None == {}
Some(v) == {v}
The(o) == CHOOSE v \in o : TRUE

\* string literals
S_empty == << >>
S_dash == <<"-">>
S_cmd_ == <<"c", "m", "d", "_">>
S_cmd_foo_bar == <<"c", "m", "d", "_", "f", "o", "o", "_", "b", "a", "r">>
S_foo_bar == <<"f", "o", "o", "_", "b", "a", "r">>
S_cmd_x == <<"c", "m", "d", "_", "x">>
S_opt == <<"-", "-", "o">>
S_help == <<"h", "e", "l", "p">>
S_description == <<"d", "e", "s", "c", "r", "i", "p", "t", "i", "o", "n">>
S_h_opt == <<"-", "h">>
S_help_opt == <<"-", "-", "h", "e", "l", "p">>
S_text == <<"t", "x", "t">>
S_fn == <<"f", "n">>
S_handler == <<"h", "a", "n", "d", "l", "e", "r">>
S_add_parser == <<"a", "d", "d", "_", "p", "a", "r", "s", "e", "r">>
S_set_defaults == <<"s", "e", "t", "_", "d", "e", "f", "a", "u", "l", "t", "s">>
S_add_argument == <<"a", "d", "d", "_", "a", "r", "g", "u", "m", "e", "n", "t">>
S_bogus == <<"b", "o", "g", "u", "s">>
S_cmd == <<"c", "m", "d">>
S_create_parsers == <<"c", "r", "e", "a", "t", "e", "_", "p", "a", "r", "s", "e", "r", "s">>
S_getattr == <<"_", "_", "g", "e", "t", "a", "t", "t", "r", "_", "_">>

\* the decorated functions: two distinct function objects (their identities)
F1 == <<"f1">>
F2 == <<"f2">>
Fns == {F1, F2}

\* fn.__name__
FnName(fn) ==
    CASE fn = F1 -> S_cmd_foo_bar
      [] fn = F2 -> S_foo_bar

\* the SubDec(name_prefix, fn_dest, sep) objects of the model
Configs == {
    <<S_empty, S_fn, Some(S_dash)>>,
    <<S_cmd_, S_handler, None>>,
    <<S_cmd_, S_fn, Some(S_dash)>> }

\* the attributes of a sub-parser (argparse.ArgumentParser) among MethodNames
ParserOps == {S_add_argument, S_set_defaults}

\* the attribute names requested on the SubDec object
MethodNames == ParserOps \cup {S_bogus}

\* the attributes of the SubDec object that are not sub-parser operations:
\* its public methods
OwnAttributes == {S_cmd, S_create_parsers}

\* the name, k and kw a dynamic decorator factory is called with
DynArgs == {
    <<S_add_argument, <<S_opt>>, {<<S_help, S_text>>}>>,
    <<S_set_defaults, << >>, {<<S_opt, S_text>>}>>,
    <<S_bogus, << >>, {}>> }

\* the keywords add_parser accepts, among those cmd is called with: help
\* and the keywords of the parser class
AddParserKeywords == {S_help, S_description}

\* the option strings a new sub-parser has: those of its help action
InitialOptions == {S_h_opt, S_help_opt}

\* the k and kw cmd is called with
CmdArgs == {
    << << >>, {<<S_help, S_text>>} >>,
    << <<S_cmd_x>>, {<<S_description, S_text>>} >> }

\* the name, k and kw of the applications getattr(sd, name)(*k, **kw)(fn)
Requests ==
    DynArgs
    \cup {<<S_cmd, a[1], a[2]>> : a \in CmdArgs}
    \cup {<<S_create_parsers, << >>, {}>>}

-----------------------------------------------------------------------------
(* Helpers: Python built-ins *)

\* reversed(s)
Reverse(s) == [i \in 1..Len(s) |-> s[Len(s) + 1 - i]]

\* s.startswith(p)
StartsWith(s, p) == Len(p) <= Len(s) /\ SubSeq(s, 1, Len(p)) = p

\* s.replace(old, new), old a single character
RECURSIVE Replace(_, _, _)
Replace(s, old, new) ==
    IF s = << >> THEN << >>
    ELSE (IF Head(s) = old THEN new ELSE <<Head(s)>>)
         \o Replace(Tail(s), old, new)

\* fn in cmds
HasKey(cmds, fn) == \E i \in 1..Len(cmds) : cmds[i].key = fn

\* the position of cmds[fn] in the insertion order
IndexOf(cmds, fn) == CHOOSE i \in 1..Len(cmds) : cmds[i].key = fn

-----------------------------------------------------------------------------
(* The registry: SubDec.__get_command, SubDec.cmd, SubDec.__getattr__ *)

\* NewDescriptor with the function's __name__ as the name
NewDescriptorNamed(fn) ==
    [name |-> Some(FnName(fn)),
     fn |-> fn,
     subparser_call_stack |-> << >>,
     add_parser_args |-> None]

\* the descriptor __get_command creates for a function it has not seen
NewDescriptor(fn) ==
    [name |-> None,
     fn |-> fn,
     subparser_call_stack |-> << >>,
     add_parser_args |-> None]

\* GetCommand creating a descriptor on every call
GetCommandAlwaysCreates(cmds, fn) ==
    Append(cmds, [key |-> fn, value |-> NewDescriptor(fn)])

\* GetCommand moving the entry of a known function to the end
GetCommandMovesToEnd(cmds, fn) ==
    IF ~HasKey(cmds, fn)
    THEN Append(cmds, [key |-> fn, value |-> NewDescriptor(fn)])
    ELSE Append(SelectSeq(cmds, LAMBDA c : c.key # fn), cmds[IndexOf(cmds, fn)])

\* __get_command(fn): the registry after the call; the descriptor it returns
\* is the one at IndexOf(GetCommand(cmds, fn), fn)
GetCommand(cmds, fn) ==
    IF ~HasKey(cmds, fn)
    THEN Append(cmds, [key |-> fn, value |-> NewDescriptor(fn)])
    ELSE cmds

\* CmdDecorator with the keywords of an earlier application kept
CmdDecoratorMergesKeywords(cmds, fn, k, kw) ==
    LET got == GetCommand(cmds, fn)
        i == IndexOf(got, fn)
        old == got[i].value.add_parser_args
    IN  [got EXCEPT ![i].value.add_parser_args =
            IF old = None THEN Some(<<k, kw>>)
            ELSE Some(<<k, The(old)[2] \cup kw>>)]

\* CmdDecorator emptying the call stack of the function
CmdDecoratorClearsStack(cmds, fn, k, kw) ==
    LET got == GetCommand(cmds, fn)
        i == IndexOf(got, fn)
    IN  [got EXCEPT ![i].value.add_parser_args = Some(<<k, kw>>),
                    ![i].value.subparser_call_stack = << >>]

\* the decorator cmd(*k, **kw) returns, applied to fn
CmdDecorator(cmds, fn, k, kw) ==
    LET got == GetCommand(cmds, fn)
        i == IndexOf(got, fn)
    IN  [got EXCEPT ![i].value.add_parser_args = Some(<<k, kw>>)]

\* the record a dynamic decorator appends
CallData(name, k, kw) == [method_name |-> name, args |-> k, kwargs |-> kw]

\* DynDecorator storing a new descriptor that keeps only the call stack
DynDecoratorForgetsCmd(cmds, fn, name, k, kw) ==
    LET got == GetCommand(cmds, fn)
        i == IndexOf(got, fn)
    IN  [got EXCEPT ![i].value =
            [NewDescriptor(fn) EXCEPT !.subparser_call_stack =
                Append(got[i].value.subparser_call_stack,
                       CallData(name, k, kw))]]

\* the decorator getattr(sd, name)(*k, **kw) returns, applied to fn
DynDecorator(cmds, fn, name, k, kw) ==
    LET got == GetCommand(cmds, fn)
        i == IndexOf(got, fn)
    IN  [got EXCEPT ![i].value.subparser_call_stack =
                        Append(@, CallData(name, k, kw))]

-----------------------------------------------------------------------------
(* The sub-parser group and its sub-parsers: the objects create_parsers is *)
(* given.  A group records every call made on it and on the sub-parsers it *)
(* returned; the sub-parser returned by the p-th add_parser call is p, the *)
(* group itself is 0.  A strict group refuses a name it already has.  A    *)
(* call that raises is in the record, an attribute lookup that raises is   *)
(* no call.  An error is its type and the name it is about: the attribute, *)
(* the sub-parser name, the option string or the keyword.                  *)

NewGroup(strict) == [strict |-> strict, calls |-> << >>, raised |-> None]

Call(obj, method, args, kwargs) ==
    [obj |-> obj, method |-> method, args |-> args, kwargs |-> kwargs]

\* the add_parser calls made on the group so far
AddParserCalls(calls) ==
    SelectSeq(calls, LAMBDA c : c.obj = 0 /\ c.method = S_add_parser)

\* the sub-parser the last add_parser call returned
LastParser(calls) == Len(AddParserCalls(calls))

\* the names the group has a sub-parser for
TakenNames(calls) ==
    {AddParserCalls(calls)[i].args[1] : i \in 1..Len(AddParserCalls(calls))}

\* the keywords of kwargs add_parser does not accept
Unexpected(kwargs) == {kv[1] : kv \in kwargs} \ AddParserKeywords

\* subparsers.add_parser(*args, **kwargs): the name is looked up before the
\* parser class is called with the keywords
AddParser(group, args, kwargs) ==
    LET made == Append(group.calls, Call(0, S_add_parser, args, kwargs))
    IN  IF group.strict /\ args[1] \in TakenNames(group.calls)
        THEN [group EXCEPT !.calls = made,
                           !.raised = Some([type |-> "ArgumentError",
                                            name |-> args[1]])]
        ELSE IF Unexpected(kwargs) # {}
        THEN [group EXCEPT !.calls = made,
                           !.raised = Some([type |-> "TypeError",
                                            name |-> CHOOSE k \in Unexpected(kwargs) : TRUE])]
        ELSE [group EXCEPT !.calls = made]

\* parser.set_defaults(**kwargs)
SetDefaults(group, parser, kwargs) ==
    [group EXCEPT !.calls = Append(@, Call(parser, S_set_defaults, << >>,
                                           kwargs))]

\* the option strings among the positional arguments of add_argument
OptionStrings(args) ==
    {args[i] : i \in {j \in 1..Len(args) : args[j] # << >> /\ args[j][1] = "-"}}

\* the option strings sub-parser parser has after the calls
OptionsOf(calls, parser) ==
    InitialOptions \cup
    UNION {OptionStrings(calls[i].args) :
              i \in {j \in 1..Len(calls) : /\ calls[j].obj = parser
                                           /\ calls[j].method = S_add_argument}}

\* getattr(parser, method_name)(*args, **kwargs): the lookup raises for a
\* name that is no attribute, add_argument raises for an option string the
\* sub-parser already has
GetattrAndCall(group, parser, call_data) ==
    LET made == Append(group.calls, Call(parser, call_data.method_name,
                                         call_data.args, call_data.kwargs))
        taken == OptionStrings(call_data.args)
                     \cap OptionsOf(group.calls, parser)
        first == CHOOSE i \in 1..Len(call_data.args) :
                     /\ call_data.args[i] \in taken
                     /\ \A j \in 1..(i - 1) : call_data.args[j] \notin taken
    IN  IF call_data.method_name \notin ParserOps
        THEN [group EXCEPT !.raised = Some([type |-> "AttributeError",
                                            name |-> call_data.method_name])]
        ELSE IF call_data.method_name = S_add_argument /\ taken # {}
        THEN [group EXCEPT !.calls = made,
                           !.raised = Some([type |-> "ArgumentError",
                                            name |-> call_data.args[first]])]
        ELSE [group EXCEPT !.calls = made]

\* the type of the sub-parser objects add_parser returns
S_ArgumentParser == <<"A", "r", "g", "u", "m", "e", "n", "t", "P", "a", "r", "s", "e", "r">>
S_quote == <<"'">>
S_has_no_attribute == <<"'", " ", "o", "b", "j", "e", "c", "t", " ", "h", "a", "s", " ", "n", "o", " ", "a", "t", "t", "r", "i", "b", "u", "t", "e", " ", "'">>

\* s[i..i+Len(sub)-1] = sub for some i
Contains(s, sub) ==
    \E i \in 1..(Len(s) - Len(sub) + 1) : SubSeq(s, i, i + Len(sub) - 1) = sub

\* AttributeErrorMessage without the attribute name
AttributeErrorMessageWithoutName(typename, name) ==
    S_quote \o typename \o S_has_no_attribute \o S_quote

\* str(e) of the AttributeError getattr(parser, name) raises for an object
\* of type typename: __create_parser adds nothing to it
AttributeErrorMessage(typename, name) ==
    S_quote \o typename \o S_has_no_attribute \o name \o S_quote

-----------------------------------------------------------------------------
(* SubDec.__create_parser and SubDec.create_parsers *)

\* DerivedName with the prefix length cut off whether or not the name
\* starts with the prefix
DerivedNameCutsAlways(fnname, prefix, sp) ==
    LET stripped == SubSeq(fnname, Len(prefix) + 1, Len(fnname))
    IN  IF sp # None THEN Replace(stripped, "_", The(sp)) ELSE stripped

\* the name derived from fn.__name__
DerivedName(fnname, prefix, sp) ==
    LET stripped == IF StartsWith(fnname, prefix)
                    THEN SubSeq(fnname, Len(prefix) + 1, Len(fnname))
                    ELSE fnname
    IN  IF sp # None THEN Replace(stripped, "_", The(sp)) ELSE stripped

\* name, after the first block of __create_parser
EffectiveName(cmd, prefix, sp) ==
    IF cmd.name = None \/ The(cmd.name) = << >>
    THEN DerivedName(FnName(cmd.fn), prefix, sp)
    ELSE The(cmd.name)

\* AddParserArgs with the keywords of cmd lost when the name is substituted
AddParserArgsLosesKeywords(cmd, prefix, sp) ==
    LET name == EffectiveName(cmd, prefix, sp)
    IN  IF cmd.add_parser_args # None /\ The(cmd.add_parser_args)[1] # << >>
        THEN The(cmd.add_parser_args)
        ELSE << <<name>>, {} >>

\* <<add_parser_args, add_parser_kwargs>>, after the second block
AddParserArgs(cmd, prefix, sp) ==
    LET name == EffectiveName(cmd, prefix, sp)
    IN  IF cmd.add_parser_args # None
        THEN LET add_parser_args == The(cmd.add_parser_args)[1]
                 add_parser_kwargs == The(cmd.add_parser_args)[2]
             IN  IF add_parser_args = << >>
                 THEN << <<name>>, add_parser_kwargs >>
                 ELSE << add_parser_args, add_parser_kwargs >>
        ELSE << <<name>>, {} >>

\* ReplayOrder without the reversal
ReplayOrderAsRecorded(stack) == stack

\* the order in which the recorded calls are replayed
ReplayOrder(stack) == Reverse(stack)

\* the replay loop: stops at the first call that raises
RECURSIVE Replay(_, _, _)
Replay(group, parser, todo) ==
    IF todo = << >> \/ group.raised # None THEN group
    ELSE Replay(GetattrAndCall(group, parser, Head(todo)), parser, Tail(todo))

\* CreateParser with the fn default set after the replay
CreateParserDefaultsLast(cmd, group, prefix, dest, sp) ==
    LET a == AddParserArgs(cmd, prefix, sp)
        added == AddParser(group, a[1], a[2])
        parser == LastParser(added.calls)
        replayed == Replay(added, parser,
                           ReplayOrder(cmd.subparser_call_stack))
    IN  IF added.raised # None \/ replayed.raised # None THEN replayed
        ELSE SetDefaults(replayed, parser, {<<dest, cmd.fn>>})

\* CreateParser refusing, itself, a name the group already has
CreateParserRejectsTaken(cmd, group, prefix, dest, sp) ==
    LET a == AddParserArgs(cmd, prefix, sp)
        added == AddParser(group, a[1], a[2])
        parser == LastParser(added.calls)
    IN  IF a[1][1] \in TakenNames(group.calls)
        THEN [group EXCEPT !.raised = Some([type |-> "ValueError",
                                            name |-> a[1][1]])]
        ELSE IF added.raised # None THEN added
        ELSE Replay(SetDefaults(added, parser, {<<dest, cmd.fn>>}),
                    parser, ReplayOrder(cmd.subparser_call_stack))

\* __create_parser(cmd, subparsers): the group after the call
CreateParser(cmd, group, prefix, dest, sp) ==
    LET a == AddParserArgs(cmd, prefix, sp)
        added == AddParser(group, a[1], a[2])
        parser == LastParser(added.calls)
    IN  IF added.raised # None THEN added
        ELSE Replay(SetDefaults(added, parser, {<<dest, cmd.fn>>}),
                    parser, ReplayOrder(cmd.subparser_call_stack))

\* CreateParsersFrom going on with the next command after one has failed
RECURSIVE CreateParsersFromKeepsGoing(_, _, _, _, _, _)
CreateParsersFromKeepsGoing(i, cmds, group, prefix, dest, sp) ==
    IF i > Len(cmds) THEN group
    ELSE CreateParsersFromKeepsGoing(
             i + 1, cmds,
             CreateParser(cmds[i].value, group, prefix, dest, sp),
             prefix, dest, sp)

\* create_parsers(subparsers): the loop over self.__commands.values()
RECURSIVE CreateParsersFrom(_, _, _, _, _, _)
CreateParsersFrom(i, cmds, group, prefix, dest, sp) ==
    IF i > Len(cmds) \/ group.raised # None THEN group
    ELSE CreateParsersFrom(i + 1, cmds,
                           CreateParser(cmds[i].value, group, prefix, dest, sp),
                           prefix, dest, sp)

CreateParsers(cmds, group, prefix, dest, sp) ==
    CreateParsersFrom(1, cmds, group, prefix, dest, sp)

\* RegistryAfterCreateParsers with every call stack reversed in place, as
\* list.reverse() would leave it
RegistryAfterInPlaceReversal(cmds) ==
    [i \in 1..Len(cmds) |->
        [cmds[i] EXCEPT !.value.subparser_call_stack = Reverse(@)]]

\* self.__commands after create_parsers: the loop and __create_parser only
\* read the descriptors (reversed() makes an iterator, it does not reorder
\* the list) and assign to none of their entries
RegistryAfterCreateParsers(cmds) == cmds

-----------------------------------------------------------------------------
(* The state machine *)

\* SubDec(name_prefix, fn_dest, sep)
Init ==
    /\ \E c \in Configs : name_prefix = c[1] /\ fn_dest = c[2] /\ sep = c[3]
    /\ decorators_cache = {}
    /\ commands = << >>
    /\ history = << >>
    /\ subparsers = None
    /\ error = None

Applied(kind, fn, name, k, kw) ==
    [kind |-> kind, fn |-> fn, method_name |-> name, args |-> k, kwargs |-> kw]

\* Resolve with every name handed to __getattr__
ResolveAlwaysGetattr(name) == S_getattr

\* getattr(sd, name): the code that answers.  Python calls __getattr__ only
\* for a name the normal lookup does not find, so the methods of the class
\* answer for their own names.
Resolve(name) == IF name \in OwnAttributes THEN name ELSE S_getattr

\* sd.cmd(*k, **kw)(fn).  A decorator application ends the observation of the
\* group of an earlier create_parsers call: the registry it was made from is
\* no longer the current one.
Cmd(fn, k, kw) ==
    /\ Len(history) < MaxDecorations
    /\ commands' = CmdDecorator(commands, fn, k, kw)
    /\ history' = Append(history, Applied("cmd", fn, S_cmd, k, kw))
    /\ subparsers' = None
    /\ error' = None
    /\ UNCHANGED <<config, decorators_cache>>

\* sd.<name>, name found by no normal lookup: __getattr__(name) stores the
\* decorator factory it makes; for a name in the cache it returns the stored
\* one and changes nothing
Getattr(name) ==
    /\ Resolve(name) = S_getattr
    /\ name \notin decorators_cache
    /\ decorators_cache' = decorators_cache \cup {name}
    /\ UNCHANGED <<config, commands, history, subparsers, error>>

\* the decorator factory __getattr__(name) returned, called and applied to fn
Dyn(fn, name, k, kw) ==
    /\ name \in decorators_cache
    /\ Len(history) < MaxDecorations
    /\ commands' = DynDecorator(commands, fn, name, k, kw)
    /\ history' = Append(history, Applied("dyn", fn, name, k, kw))
    /\ subparsers' = None
    /\ error' = None
    /\ UNCHANGED <<config, decorators_cache>>

\* the exception of sd.create_parsers(*k, **kw)(fn): the method takes one
\* positional argument; given one that is no group it fails on add_parser
\* when there is a command, and else returns None, which is not callable
CreateParsersAsFactory(cmds, k, kw) ==
    IF Len(k) # 1 \/ kw # {}
    THEN [type |-> "TypeError", name |-> S_create_parsers]
    ELSE IF cmds # << >>
    THEN [type |-> "AttributeError", name |-> S_add_parser]
    ELSE [type |-> "TypeError", name |-> S_create_parsers]

\* sd.create_parsers(*k, **kw)(fn): raises, nothing is recorded; tried, as
\* the decorators are, while fewer than MaxDecorations are recorded
Misuse(fn, k, kw) ==
    /\ Len(history) < MaxDecorations
    /\ error' = Some(CreateParsersAsFactory(commands, k, kw))
    /\ subparsers' = None
    /\ UNCHANGED <<config, decorators_cache, commands, history>>

\* the value of sd.<name>, called with k and kw, and the result applied to fn
Attr(fn, name, k, kw) ==
    CASE Resolve(name) = S_cmd -> Cmd(fn, k, kw)
      [] Resolve(name) = S_create_parsers -> Misuse(fn, k, kw)
      [] OTHER -> Dyn(fn, name, k, kw)

\* sd.create_parsers(subparsers), subparsers a new group that accepts (not
\* strict) or refuses (strict, argparse since Python 3.11) a duplicate name
DoCreateParsers(strict) ==
    \E done \in {CreateParsers(commands, NewGroup(strict),
                                 name_prefix, fn_dest, sep)} :
        /\ subparsers' = Some([strict |-> done.strict, calls |-> done.calls])
        /\ error' = done.raised
        /\ commands' = RegistryAfterCreateParsers(commands)
        /\ UNCHANGED <<config, decorators_cache, history>>

Next ==
    \/ \E name \in MethodNames \cup OwnAttributes : Getattr(name)
    \/ \E fn \in Fns, a \in Requests : Attr(fn, a[1], a[2], a[3])
    \/ \E strict \in BOOLEAN : DoCreateParsers(strict)

Spec == Init /\ [][Next]_vars

-----------------------------------------------------------------------------
(* What the decorators were applied to, read off the history *)

Range(q) == {q[i] : i \in 1..Len(q)}

Front(q) == SubSeq(q, 1, Len(q) - 1)

Last(q) == q[Len(q)]

IsPrefixOf(p, q) == Len(p) <= Len(q) /\ SubSeq(q, 1, Len(p)) = p

\* the decorator applications made on fn, first applied (innermost) first
AppliedTo(fn) == SelectSeq(history, LAMBDA a : a.fn = fn)

DynAppliedTo(fn) == SelectSeq(history, LAMBDA a : a.fn = fn /\ a.kind = "dyn")

CmdAppliedTo(fn) == SelectSeq(history, LAMBDA a : a.fn = fn /\ a.kind = "cmd")

\* the functions decorated at least once
Decorated == {history[i].fn : i \in 1..Len(history)}

\* the functions in the order of their first decoration
RECURSIVE FirstSeen(_)
FirstSeen(h) ==
    IF h = << >> THEN << >>
    ELSE LET before == FirstSeen(Front(h))
         IN  IF Last(h).fn \in Range(before) THEN before
             ELSE Append(before, Last(h).fn)

\* the dynamic decorators on fn as a reader sees them stacked above the def:
\* outermost (applied last) first
StackedOn(fn) == Reverse(DynAppliedTo(fn))

\* no positional argument was given for fn's add_parser call
NoPositional(fn) ==
    CmdAppliedTo(fn) = << >> \/ Last(CmdAppliedTo(fn)).args = << >>

\* the name the documentation of SubDec promises for a function name: the
\* prefix is cut off a name that starts with it, and then each underscore
\* becomes the separator (a single character in every modelled SubDec)
PromisedName(fnname) ==
    LET n == Len(name_prefix)
        cut == IF Len(fnname) >= n /\ (\A i \in 1..n : fnname[i] = name_prefix[i])
               THEN [i \in 1..(Len(fnname) - n) |-> fnname[i + n]]
               ELSE fnname
    IN  IF sep = None THEN cut
        ELSE [i \in 1..Len(cut) |->
                 IF cut[i] = "_" THEN The(sep)[1] ELSE cut[i]]

\* create_parsers was called and the group it was given
Materialized == subparsers # None

Log == The(subparsers).calls

\* the calls made on sub-parser p, in order
CallsOn(p) == SelectSeq(Log, LAMBDA c : c.obj = p)

\* the add_parser calls made on the group, in order
Added == AddParserCalls(Log)

\* the sub-parsers add_parser returned: the last call may have raised
Returned ==
    IF error # None /\ Log # << >> /\ Log[Len(Log)].method = S_add_parser
    THEN 1..(Len(Added) - 1)
    ELSE 1..Len(Added)

\* the calls replayed on sub-parser p: all but the set_defaults of fn
ReplayedOn(p) == IF CallsOn(p) = << >> THEN << >> ELSE Tail(CallsOn(p))

\* a recorded application as the call it becomes on sub-parser p
AsCall(p, a) == Call(p, a.method_name, a.args, a.kwargs)

AsCalls(p, q) == [i \in 1..Len(q) |-> AsCall(p, q[i])]

-----------------------------------------------------------------------------
(* Claims *)

\* C1: for a function with dynamic decorators stacked A, B, C from outermost
\* to innermost, create_parsers calls A, B, C on its sub-parser in that order,
\* each once and with the arguments of its factory: the replay is the reverse
\* of the order in which the records were appended.  (When a call raises, the
\* calls made are the ones before it in that order.)
C1_ReplayIsStackedOrder ==
    Materialized =>
        \A p \in Returned :
            LET fn == commands[p].key
            IN  /\ IsPrefixOf(ReplayedOn(p), AsCalls(p, StackedOn(fn)))
                /\ error = None => ReplayedOn(p) = AsCalls(p, StackedOn(fn))
                /\ commands[p].value.subparser_call_stack
                       = [i \in 1..Len(DynAppliedTo(fn)) |->
                             CallData(DynAppliedTo(fn)[i].method_name,
                                      DynAppliedTo(fn)[i].args,
                                      DynAppliedTo(fn)[i].kwargs)]

\* three different decorators on one function, replayed without an error
C1_Witness ==
    /\ Materialized
    /\ error = None
    /\ \E p \in Returned :
           /\ Len(ReplayedOn(p)) = 3
           /\ ReplayedOn(p)[1] # ReplayedOn(p)[3]

\* C2: without a positional argument of cmd (and no explicit name), the one
\* positional argument of add_parser is the function's __name__ with
\* name_prefix removed iff the name starts with it and then, if sep is not
\* None, every underscore replaced by sep.
C2_DerivedName ==
    Materialized =>
        \A p \in 1..Len(Added) :
            LET fn == commands[p].key
            IN  NoPositional(fn) =>
                    /\ Added[p].args = <<PromisedName(FnName(fn))>>
                    /\ (fn = F2 /\ name_prefix = S_empty /\ sep = Some(S_dash))
                           => Added[p].args = << <<"f", "o", "o", "-", "b", "a", "r">> >>
                    /\ (fn = F1 /\ name_prefix = S_empty /\ sep = Some(S_dash))
                           => Added[p].args = << <<"c", "m", "d", "-", "f", "o", "o", "-", "b", "a", "r">> >>
                    /\ (fn = F1 /\ name_prefix = S_cmd_ /\ sep = Some(S_dash))
                           => Added[p].args = << <<"f", "o", "o", "-", "b", "a", "r">> >>
                    /\ (fn = F1 /\ name_prefix = S_cmd_ /\ sep = None)
                           => Added[p].args = <<S_foo_bar>>
                    /\ (fn = F2 /\ name_prefix = S_cmd_ /\ sep = None)
                           => Added[p].args = <<S_foo_bar>>

\* a name that starts with the prefix and one that does not, both derived
C2_Witness ==
    /\ Materialized
    /\ name_prefix = S_cmd_
    /\ sep # None
    /\ Len(Added) = 2
    /\ \A fn \in Fns : NoPositional(fn)
    /\ \E fn \in Fns : CmdAppliedTo(fn) # << >>

\* C3: the arguments of add_parser: (1) cmd applied with positionals: those,
\* verbatim, and the recorded keywords; (2) cmd applied without positionals:
\* the derived name and the recorded keywords; (3) cmd never applied: the
\* derived name and no keywords.
C3_AddParserArguments ==
    Materialized =>
        \A p \in 1..Len(Added) :
            LET fn == commands[p].key
                applied == CmdAppliedTo(fn)
            IN  /\ (applied # << >> /\ Last(applied).args # << >>) =>
                       /\ Added[p].args = Last(applied).args
                       /\ Added[p].kwargs = Last(applied).kwargs
                /\ (applied # << >> /\ Last(applied).args = << >>) =>
                       /\ Added[p].args = <<PromisedName(FnName(fn))>>
                       /\ Added[p].kwargs = Last(applied).kwargs
                /\ applied = << >> =>
                       /\ Added[p].args = <<PromisedName(FnName(fn))>>
                       /\ Added[p].kwargs = {}

\* one command with positionals that the naming rules would change, one
\* without positionals but with keywords
C3_Witness ==
    /\ Materialized
    /\ Len(Added) = 2
    /\ name_prefix = S_cmd_
    /\ sep # None
    /\ \E p, q \in 1..2 :
           /\ Added[p].args = <<S_cmd_x>>
           /\ Added[p].kwargs # {}
           /\ CmdAppliedTo(commands[q].key) # << >>
           /\ NoPositional(commands[q].key)
           /\ Added[q].kwargs # {}

\* the position in the log of the p-th add_parser call
PositionOfAdded(p) ==
    CHOOSE k \in 1..Len(Log) :
        /\ Log[k].obj = 0
        /\ LastParser(SubSeq(Log, 1, k)) = p

\* C4: for every registered command create_parsers calls add_parser once,
\* then set_defaults on the returned sub-parser with the one entry fn_dest
\* mapped to the command's function, and only then replays: the set_defaults
\* call is the first call on the sub-parser, also when the stack is empty.
C4_SetDefaultsFirst ==
    Materialized =>
        /\ Len(Added) <= Len(commands)
        /\ error = None => Len(Added) = Len(commands)
        /\ \A p \in Returned :
               LET first == Call(p, S_set_defaults, << >>,
                                 {<<fn_dest, commands[p].value.fn>>})
               IN  /\ CallsOn(p) # << >>
                   /\ CallsOn(p)[1] = first
                   /\ Len(Log) > PositionOfAdded(p)
                   /\ Log[PositionOfAdded(p) + 1] = first
                   /\ Len(SelectSeq(CallsOn(p), LAMBDA c : c = first))
                          = 1 + Len(SelectSeq(AsCalls(p, DynAppliedTo(commands[p].key)),
                                              LAMBDA c : c = first))

\* a command with an empty call stack and one with a recorded call, under a
\* fn_dest that is not the default
C4_Witness ==
    /\ Materialized
    /\ error = None
    /\ fn_dest = S_handler
    /\ Len(Added) = 2
    /\ \E p, q \in 1..2 : Len(CallsOn(p)) = 1 /\ Len(CallsOn(q)) > 1

\* C5: after any sequence of decorator applications on a function,
\* add_parser_args is the (positional, keyword) pair of the cmd application
\* made last, nothing of an earlier pair retained, and the length of
\* subparser_call_stack is the number of dynamic applications, however many
\* cmd applications are interleaved.
C5_CmdOverwritesStackAccumulates ==
    \A i \in 1..Len(commands) :
        LET fn == commands[i].key
            d == commands[i].value
        IN  /\ d.add_parser_args =
                   IF CmdAppliedTo(fn) = << >> THEN None
                   ELSE Some(<<Last(CmdAppliedTo(fn)).args,
                               Last(CmdAppliedTo(fn)).kwargs>>)
            /\ Len(d.subparser_call_stack) = Len(DynAppliedTo(fn))

\* cmd applied twice with different arguments, a dynamic decorator between
C5_Witness ==
    \E fn \in Fns :
        /\ Len(AppliedTo(fn)) = 3
        /\ AppliedTo(fn)[1].kind = "cmd"
        /\ AppliedTo(fn)[2].kind = "dyn"
        /\ AppliedTo(fn)[3].kind = "cmd"
        /\ AppliedTo(fn)[1].args # AppliedTo(fn)[3].args
        /\ AppliedTo(fn)[1].kwargs # AppliedTo(fn)[3].kwargs

\* the registry a sequence of decorator applications builds on a new SubDec
RECURSIVE RegistryOf(_)
RegistryOf(h) ==
    IF h = << >> THEN << >>
    ELSE LET a == Last(h)
         IN  IF a.kind = "cmd"
             THEN CmdDecorator(RegistryOf(Front(h)), a.fn, a.args, a.kwargs)
             ELSE DynDecorator(RegistryOf(Front(h)), a.fn, a.method_name,
                               a.args, a.kwargs)

\* the applications on fn, its one cmd application moved to position q among
\* the dynamic ones
CmdMovedTo(fn, q) ==
    LET d == DynAppliedTo(fn)
        c == CmdAppliedTo(fn)[1]
    IN  [j \in 1..(Len(d) + 1) |->
            IF j < q THEN d[j] ELSE IF j = q THEN c ELSE d[j - 1]]

\* the history with the applications on fn replaced by CmdMovedTo(fn, q), the
\* applications on the other functions where they were
HistoryWithCmdAt(fn, q) ==
    [i \in 1..Len(history) |->
        IF history[i].fn = fn
        THEN CmdMovedTo(fn, q)[Len(SelectSeq(SubSeq(history, 1, i),
                                             LAMBDA a : a.fn = fn))]
        ELSE history[i]]

\* C6: the position of a single cmd among the dynamic decorators of a
\* function is irrelevant: with the same dynamic decorators in the same order
\* and the cmd application at any other position, the registry is the same
\* and create_parsers makes the same calls.
C6_CmdPositionIrrelevant ==
    \A fn \in Decorated :
        Len(CmdAppliedTo(fn)) = 1 =>
            \A q \in 1..Len(AppliedTo(fn)) :
                LET other == RegistryOf(HistoryWithCmdAt(fn, q))
                IN  /\ other = commands
                    /\ Materialized =>
                           LET g == CreateParsers(other,
                                                  NewGroup(The(subparsers).strict),
                                                  name_prefix, fn_dest, sep)
                           IN  g.calls = Log /\ g.raised = error

\* one cmd between two different dynamic decorators, then create_parsers
C6_Witness ==
    /\ Materialized
    /\ \E fn \in Fns :
           /\ Len(AppliedTo(fn)) = 3
           /\ AppliedTo(fn)[1].kind = "dyn"
           /\ AppliedTo(fn)[2].kind = "cmd"
           /\ AppliedTo(fn)[3].kind = "dyn"
           /\ AppliedTo(fn)[1].method_name # AppliedTo(fn)[3].method_name
           /\ AppliedTo(fn)[2].args # << >>

\* a recorded method name the sub-parser has no attribute for
Unsupported(a) == a.method_name \notin ParserOps

\* the position of the first unsupported call in a replay order, 0 if none
FirstUnsupported(order) ==
    IF \E j \in 1..Len(order) : Unsupported(order[j])
    THEN CHOOSE j \in 1..Len(order) :
             /\ Unsupported(order[j])
             /\ \A k \in 1..(j - 1) : ~Unsupported(order[k])
    ELSE 0

\* the registry positions of the commands with an unsupported recorded call
Failing ==
    {i \in 1..Len(commands) :
        FirstUnsupported(StackedOn(commands[i].key)) > 0}

\* the registry positions of the commands with two recorded add_argument
\* calls for one option string, or one for an option string of the help action
Clashing ==
    {i \in 1..Len(commands) :
        LET q == SelectSeq(StackedOn(commands[i].key),
                           LAMBDA a : a.method_name = S_add_argument)
        IN  \/ \E a \in 1..Len(q) :
                   OptionStrings(q[a].args) \cap InitialOptions # {}
            \/ \E a, b \in 1..Len(q) :
                   /\ a < b
                   /\ OptionStrings(q[a].args) \cap OptionStrings(q[b].args) # {}}

\* the calls a complete configuration of sub-parser p consists of
FullyConfigured(p) ==
    <<Call(p, S_set_defaults, << >>, {<<fn_dest, commands[p].key>>})>>
        \o AsCalls(p, StackedOn(commands[p].key))

\* C7: when a replayed method name is no operation of the sub-parser,
\* create_parsers fails, the failure reaches the caller and nothing is rolled
\* back: the commands before it are created and fully configured, the failing
\* command's sub-parser is created, has its fn default and the replayed calls
\* before the failing one, and no later call and no later command is
\* processed.
C7_FailureLeavesPartialState ==
    Materialized =>
        /\ Failing # {} => error # None
        /\ (error # None /\ The(error).type = "AttributeError") =>
               LET n == Len(Added)
                   order == StackedOn(commands[n].key)
                   j == FirstUnsupported(order)
               IN  /\ Failing # {}
                   /\ n \in Failing
                   /\ \A c \in Failing : n <= c
                   /\ j > 0
                   /\ The(error).name = order[j].method_name
                   /\ \A c \in 1..(n - 1) : CallsOn(c) = FullyConfigured(c)
                   /\ CallsOn(n) = SubSeq(FullyConfigured(n), 1, j)
                   /\ Len(Log) = PositionOfAdded(n) + j

\* the first command fails on its second replayed call and a second command
\* is registered after it
C7_Witness ==
    /\ Materialized
    /\ error # None
    /\ The(error).type = "AttributeError"
    /\ Len(commands) = 2
    /\ Len(Added) = 1
    /\ Len(CallsOn(1)) = 2
    /\ Len(StackedOn(commands[1].key)) = 2

\* C8: create_parsers creates the sub-parsers in registry insertion order,
\* the order in which each function received its first decorator, whatever
\* decorators registered functions receive later; commands are processed one
\* at a time: every call about one command precedes the add_parser call of
\* the next.
C8_InsertionOrder ==
    /\ [i \in 1..Len(commands) |-> commands[i].key] = FirstSeen(history)
    /\ Materialized =>
           /\ \A p \in Returned :
                  /\ CallsOn(p) # << >>
                  /\ CallsOn(p)[1].kwargs = {<<fn_dest, FirstSeen(history)[p]>>}
           /\ \A k \in 1..Len(Log) :
                  Log[k].obj # 0 => Log[k].obj = LastParser(SubSeq(Log, 1, k))

\* the function decorated first is decorated again after a second function
\* was registered, and both sub-parsers are created
C8_Witness ==
    /\ Materialized
    /\ error = None
    /\ Len(history) = 3
    /\ history[1].fn = history[3].fn
    /\ history[1].fn # history[2].fn
    /\ Len(Added) = 2
    /\ Len(CallsOn(1)) > 1

\* C9: the registry holds exactly one descriptor per function decorated at
\* least once, keyed by the function, with fn equal to the key; the first
\* decoration creates it (name None, empty stack, add_parser_args None) and
\* the later ones reuse it: none creates a second one or resets it.
C9_OneDescriptorPerFunction ==
    /\ Len(commands) = Cardinality(Decorated)
    /\ {commands[i].key : i \in 1..Len(commands)} = Decorated
    /\ \A i \in 1..Len(commands) :
           LET fn == commands[i].key
               d == commands[i].value
           IN  /\ d.fn = fn
               /\ d.name = None
               /\ Len(d.subparser_call_stack) = Len(DynAppliedTo(fn))
               /\ \A j \in 1..Len(DynAppliedTo(fn)) :
                      d.subparser_call_stack[j]
                          = CallData(DynAppliedTo(fn)[j].method_name,
                                     DynAppliedTo(fn)[j].args,
                                     DynAppliedTo(fn)[j].kwargs)
               /\ (CmdAppliedTo(fn) = << >>) = (d.add_parser_args = None)

\* two functions, one of them decorated again after its descriptor was made
C9_Witness ==
    /\ Len(history) = 3
    /\ Len(commands) = 2
    /\ \E fn \in Fns :
           /\ Len(AppliedTo(fn)) = 2
           /\ AppliedTo(fn)[1].kind = "cmd"
           /\ AppliedTo(fn)[2].kind = "dyn"

\* the first positional argument add_parser gets for the i-th command
NameGiven(i) ==
    IF NoPositional(commands[i].key)
    THEN PromisedName(FnName(commands[i].key))
    ELSE Last(CmdAppliedTo(commands[i].key)).args[1]

\* C10: two distinct functions with equal derived names are two registry
\* entries, and create_parsers calls add_parser twice with that name, each
\* call followed by set_defaults with its own function and the replay of its
\* own stack; the core neither merges nor raises: an error about the name
\* can only come from the group's add_parser, and every error of
\* create_parsers is raised by the group or by a sub-parser (an attribute it
\* does not have, an option string it already has).
C10_SameNameTwoSubparsers ==
    /\ \A i, j \in 1..Len(commands) :
           (/\ i < j
            /\ NoPositional(commands[i].key)
            /\ NoPositional(commands[j].key)
            /\ NameGiven(i) = NameGiven(j)
            /\ (Failing \cup Clashing) \cap 1..j = {}
            /\ \A a, b \in 1..(j - 1) : a # b => NameGiven(a) # NameGiven(b)) =>
               /\ commands[i].key # commands[j].key
               /\ (Materialized /\ ~The(subparsers).strict) =>
                      /\ error = None
                      /\ Added[i].args = <<NameGiven(i)>>
                      /\ Added[j].args = <<NameGiven(i)>>
                      /\ CallsOn(i) = FullyConfigured(i)
                      /\ CallsOn(j) = FullyConfigured(j)
               /\ (Materialized /\ The(subparsers).strict) =>
                      /\ error = Some([type |-> "ArgumentError",
                                       name |-> NameGiven(i)])
                      /\ Len(Added) = j
                      /\ Last(Log) = Added[j]
                      /\ Added[j].args = <<NameGiven(i)>>
                      /\ CallsOn(i) = FullyConfigured(i)
    /\ (Materialized /\ error # None) =>
           \/ The(error).type = "AttributeError"
           \/ /\ The(error).type = "ArgumentError"
              /\ Last(Log).obj # 0
              /\ Last(Log).method = S_add_argument
              /\ Len(Added) \in Clashing
           \/ /\ The(error).type = "ArgumentError"
              /\ The(subparsers).strict
              /\ Last(Log).obj = 0
              /\ Last(Log).args[1] \in TakenNames(Front(Log))

\* both functions derive the same name, each has its own recorded call, and
\* the group accepts the second add_parser call
C10_Witness ==
    /\ Materialized
    /\ ~The(subparsers).strict
    /\ Len(Added) = 2
    /\ \A fn \in Fns : NoPositional(fn)
    /\ Added[1].args = Added[2].args
    /\ Len(CallsOn(1)) = 2
    /\ Len(CallsOn(2)) = 2
    /\ CallsOn(1)[2].method # CallsOn(2)[2].method

\* C11: create_parsers does not change the registry (no descriptor added or
\* removed, no name, call stack or add_parser_args changed), so calling it on
\* two independently constructed groups with no decoration in between makes
\* the same add_parser, set_defaults and replayed calls, with the same
\* arguments, on each.
C11_MaterializeTwice ==
    Materialized =>
        /\ commands = RegistryOf(history)
        /\ LET second == CreateParsers(commands,
                                       NewGroup(The(subparsers).strict),
                                       name_prefix, fn_dest, sep)
           IN  /\ second.calls = Log
               /\ second.raised = error
               /\ RegistryAfterCreateParsers(commands) = commands

\* two commands were materialized, one of them with two different recorded
\* calls and arguments for add_parser
C11_Witness ==
    /\ Materialized
    /\ error = None
    /\ Len(Added) = 2
    /\ \E p \in 1..2 :
           /\ Len(ReplayedOn(p)) = 2
           /\ ReplayedOn(p)[1] # ReplayedOn(p)[2]

\* the applications made on fn through an attribute name in names
RequestedOn(fn, names) ==
    SelectSeq(history, LAMBDA a : a.fn = fn /\ a.method_name \in names)

\* the records a sequence of applications would have appended
AsRecords(q) ==
    [i \in 1..Len(q) |-> CallData(q[i].method_name, q[i].args, q[i].kwargs)]

\* all the attribute names requested so far
RequestedNames == {history[i].method_name : i \in 1..Len(history)}

\* C12 as stated: for any attribute name requested on the SubDec object, the
\* names of its own methods such as 'cmd' included, the value is a decorator
\* factory whose decorator appends one CallRecord with that method_name and
\* the factory's arguments to the function's descriptor.
C12_EveryNameRecords ==
    \A i \in 1..Len(commands) :
        commands[i].value.subparser_call_stack
            = AsRecords(RequestedOn(commands[i].key, RequestedNames))

\* C12, amended: this holds for every attribute name that the normal lookup
\* does not find on the SubDec object; such a name is never rejected and is
\* the only kind __getattr__ sees and caches.  The name 'cmd' yields the cmd
\* method: its decorator appends no record and sets add_parser_args.  The
\* name 'create_parsers' yields the create_parsers method, no decorator
\* factory: using it as one raises and records nothing.
C12_UnknownNamesRecord ==
    /\ \A i \in 1..Len(commands) :
           LET fn == commands[i].key
           IN  /\ commands[i].value.subparser_call_stack
                      = AsRecords(RequestedOn(fn, RequestedNames \ OwnAttributes))
               /\ RequestedOn(fn, {S_cmd}) # << >> =>
                      commands[i].value.add_parser_args
                          = Some(<<Last(RequestedOn(fn, {S_cmd})).args,
                                   Last(RequestedOn(fn, {S_cmd})).kwargs>>)
    /\ RequestedNames \ OwnAttributes \subseteq decorators_cache
    /\ decorators_cache \cap OwnAttributes = {}
    /\ S_create_parsers \notin RequestedNames
    /\ (~Materialized /\ error # None) =>
           The(error) = CreateParsersAsFactory(commands, << >>, {})

\* a function decorated through 'cmd' and through two other names, one of
\* them no operation of a sub-parser
C12_Witness ==
    \E fn \in Fns :
        /\ Len(AppliedTo(fn)) = 3
        /\ Len(RequestedOn(fn, {S_cmd})) = 1
        /\ Len(RequestedOn(fn, {S_bogus})) = 1
        /\ Len(RequestedOn(fn, {S_add_argument})) = 1

\* C13 as stated: during replay the dynamic decorator applied first to a
\* function (the innermost, closest to the def) is the first call made on its
\* sub-parser, and the decorator applied last is the last call made.
C13_FirstAppliedReplayedFirst ==
    (Materialized /\ error = None) =>
        \A p \in Returned :
            LET applied == DynAppliedTo(commands[p].key)
            IN  applied # << >> =>
                    /\ ReplayedOn(p)[1] = AsCall(p, applied[1])
                    /\ Last(ReplayedOn(p)) = AsCall(p, Last(applied))

\* C13, amended: during replay the dynamic decorator applied last to a
\* function (the outermost, the top of the stack of decorators) is the first
\* call made on its sub-parser, and the decorator applied first (the
\* innermost) is the last call made.
C13_LastAppliedReplayedFirst ==
    (Materialized /\ error = None) =>
        \A p \in Returned :
            LET applied == DynAppliedTo(commands[p].key)
            IN  applied # << >> =>
                    /\ Len(ReplayedOn(p)) = Len(applied)
                    /\ ReplayedOn(p)[1] = AsCall(p, Last(applied))
                    /\ Last(ReplayedOn(p)) = AsCall(p, applied[1])

\* a function with set_defaults applied first and add_argument applied last
C13_Witness ==
    /\ Materialized
    /\ error = None
    /\ \E p \in Returned :
           LET applied == DynAppliedTo(commands[p].key)
           IN  /\ Len(applied) >= 2
               /\ applied[1].method_name = S_set_defaults
               /\ Last(applied).method_name = S_add_argument
               /\ ReplayedOn(p)[1].method = S_add_argument

\* the message of the error create_parsers failed with
ErrorMessage == AttributeErrorMessage(S_ArgumentParser, The(error).name)

\* create_parsers failed on a recorded method name of the last command added
FailedOnReplay ==
    /\ Materialized
    /\ error # None
    /\ The(error).type = "AttributeError"

\* C15 as stated: the error with which create_parsers fails on a recorded
\* method name the sub-parser does not support identifies both the offending
\* method name and the target function of the command being materialized.
C15_ErrorNamesMethodAndFunction ==
    FailedOnReplay =>
        LET fn == commands[Len(Added)].key
        IN  /\ Contains(ErrorMessage, The(error).name)
            /\ Contains(ErrorMessage, FnName(fn))

\* C15: the error with which create_parsers fails on a recorded method name
\* the sub-parser does not support is the AttributeError of the attribute
\* lookup itself: it identifies the offending method name, the first
\* unsupported one in replay order, and the type of the sub-parser object,
\* and it does not name the target function.
C15_ErrorNamesMethodOnly ==
    FailedOnReplay =>
        LET fn == commands[Len(Added)].key
            order == StackedOn(fn)
            j == FirstUnsupported(order)
        IN  /\ j > 0
            /\ The(error).name = order[j].method_name
            /\ Contains(ErrorMessage, order[j].method_name)
            /\ Contains(ErrorMessage, S_ArgumentParser)
            /\ ~Contains(ErrorMessage, FnName(fn))

\* the second command fails on a recorded method name after the first was
\* created
C15_Witness ==
    /\ FailedOnReplay
    /\ Len(Added) = 2
    /\ Unsupported(StackedOn(commands[2].key)[1])

\* the functions of the registry, in insertion order
Keys(cmds) == [i \in 1..Len(cmds) |-> cmds[i].key]

\* the descriptor of fn in cmds; a function without one has no name, no
\* recorded call and no add_parser arguments
DescriptorIn(cmds, fn) ==
    IF \E i \in 1..Len(cmds) : cmds[i].key = fn
    THEN cmds[CHOOSE i \in 1..Len(cmds) : cmds[i].key = fn].value
    ELSE [name |-> None, fn |-> fn, subparser_call_stack |-> << >>,
          add_parser_args |-> None]

\* one step in which the decorator application a changes the registry as its
\* kind allows
FrameOf(a) ==
    LET before == DescriptorIn(commands, a.fn)
        after == DescriptorIn(commands', a.fn)
    IN  /\ Keys(commands') = IF \E i \in 1..Len(commands) : commands[i].key = a.fn
                             THEN Keys(commands)
                             ELSE Append(Keys(commands), a.fn)
        /\ \A i \in 1..Len(commands) :
               commands[i].key # a.fn => commands'[i] = commands[i]
        /\ after.fn = a.fn
        /\ after.name = before.name
        /\ a.kind = "dyn" =>
               /\ after.subparser_call_stack =
                      Append(before.subparser_call_stack,
                             [method_name |-> a.method_name, args |-> a.args,
                              kwargs |-> a.kwargs])
               /\ after.add_parser_args = before.add_parser_args
        /\ a.kind = "cmd" =>
               /\ after.add_parser_args = Some(<<a.args, a.kwargs>>)
               /\ after.subparser_call_stack = before.subparser_call_stack

\* C16: each decorator application changes only the descriptor of its own
\* target function and only one field of it: a dynamic-dispatch decorator
\* appends one record at the end of the function's subparser_call_stack and
\* leaves the records before it, the name and add_parser_args as they were;
\* cmd replaces add_parser_args and leaves the name and the call stack as
\* they were; every other descriptor and the order of the registry entries
\* are unchanged, and a step that applies no decorator changes no descriptor.
C16_DecoratorFrame ==
    [][IF history' # history
       THEN /\ Len(history') = Len(history) + 1
            /\ SubSeq(history', 1, Len(history)) = history
            /\ FrameOf(history'[Len(history')])
       ELSE commands' = commands]_vars

\* two functions registered, the last application a cmd on the first
\* function, which has a recorded call
C16_Witness ==
    /\ Len(commands) = 2
    /\ Len(history) = 3
    /\ Last(history).kind = "cmd"
    /\ Last(history).fn = commands[1].key
    /\ Len(commands[1].value.subparser_call_stack) = 1
    /\ commands[2].value.subparser_call_stack # << >>

\* C17: in every state reachable through the decorators, cmd and
\* create_parsers the name of every descriptor is None: the name add_parser
\* gets is the first positional argument of the function's last cmd
\* application when it gave one and the name derived from __name__ in every
\* other case, so a name other than the derived one comes from cmd only.
C17_NameNeverSet ==
    /\ \A i \in 1..Len(commands) : commands[i].value.name = None
    /\ Materialized =>
           \A p \in 1..Len(Added) :
               LET fn == commands[p].key
               IN  /\ Added[p].args[1] = NameGiven(p)
                   /\ Added[p].args[1] # PromisedName(FnName(fn)) =>
                          /\ CmdAppliedTo(fn) # << >>
                          /\ Last(CmdAppliedTo(fn)).args # << >>
                          /\ Added[p].args[1] = Last(CmdAppliedTo(fn)).args[1]

\* create_parsers succeeded on two commands, one named by cmd's positional
\* argument and one by its function's name
C17_Witness ==
    /\ Materialized
    /\ error = None
    /\ Len(Added) = 2
    /\ \A i \in 1..2 : commands[i].value.name = None
    /\ \E p, q \in 1..2 :
           /\ Added[p].args[1] # PromisedName(FnName(commands[p].key))
           /\ ~NoPositional(commands[p].key)
           /\ NoPositional(commands[q].key)
           /\ Added[q].args[1] = PromisedName(FnName(commands[q].key))

=============================================================================
